---- MODULE Spec2Model ----
(***************************************************************************)
(* A model of abctools.manager.call_experiment: one call of the            *)
(* orchestrator, from seed resolution to the returned bundle.  The call's  *)
(* arguments (experiment_mode, write, **kwargs) are drawn in Init; every   *)
(* block of the function is one action; a collaborator (a callback or a    *)
(* library function) either returns or raises, and what it returns is      *)
(* drawn from a small set.  `calls` is the history of collaborator         *)
(* invocations, write_csv included.                                        *)
(***************************************************************************)
EXTENDS Integers, Sequences, FiniteSets, TLC

VARIABLES
    experiment_mode,  \* the experiment_mode argument
    write,            \* the write argument: a sequence of category names
    kwargs,           \* the set of keys present in **kwargs
    kwvals,           \* the values of the keys whose value the code reads
    pc,               \* the block of call_experiment about to run, or the one that raised
    seed,             \* local seed
    baseline_params,  \* local baseline_params
    azure,            \* locals azure_batch, client, blob_container_name, job_prefix
    init_bundle,      \* local init_bundle
    dir,              \* local dir
    k,                \* position in the current `for sub_dir in write` loop
    calls,            \* history of collaborator invocations
    error             \* the exception that ended the call, "" if none

vars == <<experiment_mode, write, kwargs, kwvals, pc, seed, baseline_params,
          azure, init_bundle, dir, k, calls, error>>

-----------------------------------------------------------------------------
(* Bounds of the model *)

\* longest write tuple
MaxWrite == 2
\* largest explicit project_seed
MaxSeed == 1
\* largest replicates value
MaxReplicates == 1
\* most keyword arguments supplied in one call
MaxKwargs == 4

(* Program constants *)

\* random.randint(0, 2**32 - 1): the largest draw.  TLC's integers end at
\* 2**31 - 1, which stands here for the top of the range
LargestDraw == 2147483647
\* mutant: the test-mode default is off by one
TestDefaultSeedOffByOne == 0 + 1

\* seed = 0 in test mode
TestDefaultSeed == 0

-----------------------------------------------------------------------------
(* Values *)

\* Python's None where an integer is expected
NoneInt == -1

Keys == {"project_seed", "initializer", "bundle", "downloader", "create_pool",
         "random_sampler", "sampler_method", "replicates", "wd", "preserve",
         "runner", "summarizer"}

Modes == {"test", "prod"}

\* "parameters" stands for every category name other than the two result ones
Categories == {"simulations", "summaries", "parameters"}

\* an optional mapping: Python None, or a dict in insertion order
NoneMap == [present |-> FALSE, items |-> <<>>]
SomeMap(s) == [present |-> TRUE, items |-> s]

Row(sim, rseed) == [simulation |-> sim, randomSeed |-> rseed]

\* SimulationBundle(inputs, step_number, baseline_params, status="created"):
\* results and summary_metrics start absent
SimulationBundle(inputs, step_number, params, status) ==
    [inputs |-> inputs, step_number |-> step_number, baseline_params |-> params,
     status |-> status, results |-> NoneMap, summary_metrics |-> NoneMap]

\* init_bundle before the bundle constructor has run
NoBundle == SimulationBundle(<<>>, NoneInt, "", "unset")

\* bundles a caller may pass as kwargs["bundle"]: a fresh one and an executed one
SourceBundles ==
    { SimulationBundle(<<Row(0, 5)>>, 0, "params_of_bundle_a", "created"),
      [inputs |-> <<Row(0, 7), Row(1, 8)>>, step_number |-> 3,
       baseline_params |-> "params_of_bundle_b", status |-> "executed",
       results |-> SomeMap(<<[id |-> 0, tabular |-> TRUE], [id |-> 1, tabular |-> TRUE]>>),
       summary_metrics |-> SomeMap(<<[id |-> 0, tabular |-> TRUE], [id |-> 1, tabular |-> TRUE]>>)] }

\* what random.randint(0, 2**32 - 1) may return: the ends of the range
RandomDraws == {0, LargestDraw}

\* what utils.initialize_azure_client may return: (client, blob_container_name, job_prefix),
\* each truthy ("...") or falsy (None, modelled as "")
AzureOutcomes ==
    { [client |-> "client", blob_container_name |-> "blob", job_prefix |-> "job"],
      [client |-> "", blob_container_name |-> "blob", job_prefix |-> "job"],
      [client |-> "", blob_container_name |-> "", job_prefix |-> ""] }

\* exceptions
ErrSeed == "ValueError: Random seed not specified"
ErrAzure == "NotImplementedError: Azure Batch not yet implemented"
ErrNoResults == "ValueError: No simulation results to write"
ErrNoSummary == "ValueError: No summary metrics to write"
ErrNotFrame == "ValueError: Returned summary metrics must be a DataFrame"
ErrInvalidWrite == "ValueError: Invalid write option"
ErrKeyCreatePool == "KeyError: create_pool"
ErrKeyReplicates == "KeyError: replicates"
ErrCollaborator == "exception raised by a collaborator"

Has(key) == key \in kwargs

-----------------------------------------------------------------------------
(* The decisions of call_experiment, as functions of its arguments *)

\* mutant: the default seed is applied in every mode, so a missing seed is no error
SeedBranchDefaultEverywhere(kw, vals, mode) ==
    IF "project_seed" \in kw
    THEN IF vals.project_seed # NoneInt THEN "explicit" ELSE "random"
    ELSE "test"

\* mutant: test mode is looked at first, so it overrides an explicit seed
SeedBranchTestFirst(kw, vals, mode) ==
    IF mode = "test" THEN "test"
    ELSE IF "project_seed" \in kw
    THEN IF vals.project_seed # NoneInt THEN "explicit" ELSE "random"
    ELSE "error"

\* lines 21-32: which branch of the seed resolver is taken
SeedBranch(kw, vals, mode) ==
    IF "project_seed" \in kw
    THEN IF vals.project_seed # NoneInt THEN "explicit" ELSE "random"
    ELSE IF mode = "test" THEN "test" ELSE "error"

\* mutant: an existing bundle is looked at before the initializer
BaselineSourceBundleFirst(kw) ==
    IF "bundle" \in kw THEN "bundle"
    ELSE IF "initializer" \in kw THEN "initializer"
    ELSE "config"

\* lines 37-46: where the local baseline_params comes from
BaselineSource(kw) ==
    IF "initializer" \in kw THEN "initializer"
    ELSE IF "bundle" \in kw THEN "bundle"
    ELSE "config"

\* mutant: the initializer is called whether or not a downloader is supplied
AzureBatchAlways(kw) == TRUE

\* lines 49-50, 67: azure_batch
AzureBatch(kw) == "downloader" \in kw

\* mutant: the sampler is looked at before the existing bundle
ConstructionPathSamplerFirst(kw) ==
    IF "random_sampler" \in kw
    THEN IF "replicates" \in kw THEN "sampler" ELSE "missing_replicates"
    ELSE IF "bundle" \in kw THEN "duplicate"
    ELSE "default"

\* lines 70, 80, 89, 93: which way the bundle is constructed
ConstructionPath(kw) ==
    IF "bundle" \in kw THEN "duplicate"
    ELSE IF "random_sampler" \in kw
    THEN IF "replicates" \in kw THEN "sampler" ELSE "missing_replicates"
    ELSE "default"

\* mutant: the duplicate is the source bundle itself, relabelled
DuplicateKeepsOutputs(src, params) == [src EXCEPT !.status = "duplicated"]

\* mutant: the duplicate takes the local baseline_params, not the source bundle's
DuplicateWithLocalParams(src, params) ==
    SimulationBundle(src.inputs, src.step_number, params, "duplicated")

\* lines 72-77: the duplicate of kwargs["bundle"]
DuplicateBundle(src, params) ==
    SimulationBundle(src.inputs, src.step_number, src.baseline_params, "duplicated")

\* mutant: the default row ignores the resolved seed
DefaultInputsSeedZero(s) == <<Row(0, 0)>>

\* line 94: pl.DataFrame({"simulation": 0, "randomSeed": seed})
DefaultInputs(s) == <<Row(0, s)>>

\* lines 87-92: abc_methods.draw_simulation_parameters returns n_simulations rows,
\* numbered from 0; the drawn columns are the sampler library's and are not modelled
DrawSimulationParameters(n, method, s) == [i \in 1..n |-> Row(i - 1, NoneInt)]

\* lines 96-100: the bundle of the generation path
GeneratedBundle(input_data, params) ==
    SimulationBundle(input_data, 0, params, "created")

\* lines 81-84
SamplerMethod(kw, vals) ==
    IF "sampler_method" \in kw THEN vals.sampler_method ELSE "sobol"

\* lines 103-106
Directory(kw, vals) == IF "wd" \in kw THEN vals.wd ELSE "."

\* mutant: the loop before execution leaves the result categories out
PreWriteTargetsNonResult(w) ==
    SelectSeq(w, LAMBDA c : c \notin {"simulations", "summaries"})

\* line 112: the categories of `for sub_dir in write` before execution
PreWriteTargets(w) == w

\* mutant: the deletion ignores the preserve flag
DeletesPriorAlways(w, kw) == Len(w) > 0

\* mutant: the preserve flag is read the wrong way round
DeletesPriorInverted(w, kw) == Len(w) > 0 /\ "preserve" \in kw

\* lines 109-111: whether delete_experiment_items is called
DeletesPrior(w, kw) == Len(w) > 0 /\ "preserve" \notin kw

-----------------------------------------------------------------------------
(* The call's arguments *)

WriteTuples == UNION { [1..n -> Categories] : n \in 0..MaxWrite }

KwargSets == { kw \in SUBSET Keys : Cardinality(kw) <= MaxKwargs }

\* the values of the keys present; an absent key has a fixed filler value
KwargValues(kw) ==
    [ project_seed : IF "project_seed" \in kw THEN {NoneInt} \cup 0..MaxSeed ELSE {NoneInt},
      bundle : IF "bundle" \in kw THEN SourceBundles ELSE {NoBundle},
      replicates : IF "replicates" \in kw THEN 1..MaxReplicates ELSE {0},
      sampler_method : IF "sampler_method" \in kw THEN {"random"} ELSE {""},
      wd : IF "wd" \in kw THEN {"out"} ELSE {""} ]

NoAzure == [azure_batch |-> FALSE, client |-> "", blob_container_name |-> "", job_prefix |-> ""]

Init ==
    /\ experiment_mode \in Modes
    /\ write \in WriteTuples
    /\ kwargs \in KwargSets
    /\ kwvals \in KwargValues(kwargs)
    /\ pc = "seed"
    /\ seed = NoneInt
    /\ baseline_params = ""
    /\ azure = NoAzure
    /\ init_bundle = NoBundle
    /\ dir = ""
    /\ k = 0
    /\ calls = <<>>
    /\ error = ""

args == <<experiment_mode, write, kwargs, kwvals>>

Call(fn, arg) == [fn |-> fn, arg |-> arg]

\* an exception leaves call_experiment: pc stays at the block that raised, and
\* nothing else of the call runs
Raise(e) ==
    /\ pc' = pc
    /\ error' = e

\* mutant: an exception is swallowed and the block that raised runs again
AtIgnoringError(b) == pc = b

\* the call is at block b and has not raised
At(b) == pc = b /\ error = ""

-----------------------------------------------------------------------------
(* Lines 21-32: the seed *)

ResolveSeed ==
    /\ At("seed")
    /\ LET branch == SeedBranch(kwargs, kwvals, experiment_mode) IN
         \/ /\ branch = "explicit"
            /\ seed' = kwvals.project_seed
            /\ pc' = "params"
            /\ error' = error
         \/ /\ branch = "random"
            /\ seed' \in RandomDraws
            /\ pc' = "params"
            /\ error' = error
         \/ /\ branch = "test"
            /\ seed' = TestDefaultSeed
            /\ pc' = "params"
            /\ error' = error
         \/ /\ branch = "error"
            /\ seed' = seed
            /\ Raise(ErrSeed)
    /\ UNCHANGED <<args, baseline_params, azure, init_bundle, dir, k, calls>>

(* Lines 34-46: the baseline parameters *)

LoadBaselineParams ==
    /\ At("params")
    /\ LET source == BaselineSource(kwargs) IN
         \/ /\ source = "initializer"
            /\ calls' = Append(calls, Call("initializer", <<>>))
            /\ \/ baseline_params' = "params_of_initializer" /\ pc' = "azure" /\ error' = error
               \/ baseline_params' = baseline_params /\ Raise(ErrCollaborator)
         \/ /\ source = "bundle"
            /\ calls' = calls
            /\ baseline_params' = kwvals.bundle.baseline_params
            /\ pc' = "azure"
            /\ error' = error
         \/ /\ source = "config"
            /\ calls' = Append(calls, Call("load_baseline_params", <<>>))
            /\ \/ baseline_params' = "params_of_config" /\ pc' = "azure" /\ error' = error
               \/ baseline_params' = baseline_params /\ Raise(ErrCollaborator)
    /\ UNCHANGED <<args, seed, azure, init_bundle, dir, k>>

(* Lines 48-67: the Azure client *)

SetUpAzure ==
    /\ At("azure")
    /\ \/ /\ AzureBatch(kwargs)
          /\ Has("create_pool")
          /\ calls' = Append(calls, Call("initialize_azure_client", <<>>))
          /\ \/ \E out \in AzureOutcomes :
                  /\ azure' = [azure_batch |-> TRUE, client |-> out.client,
                               blob_container_name |-> out.blob_container_name,
                               job_prefix |-> out.job_prefix]
                  /\ pc' = "bundle"
                  /\ error' = error
             \/ azure' = azure /\ Raise(ErrCollaborator)
       \/ /\ AzureBatch(kwargs)
          /\ ~Has("create_pool")
          /\ calls' = calls
          /\ azure' = azure
          /\ Raise(ErrKeyCreatePool)
       \/ /\ ~AzureBatch(kwargs)
          /\ calls' = calls
          /\ azure' = NoAzure
          /\ pc' = "bundle"
          /\ error' = error
    /\ UNCHANGED <<args, seed, baseline_params, init_bundle, dir, k>>

(* Lines 69-100: the bundle *)

ConstructBundle ==
    /\ At("bundle")
    /\ \/ /\ ConstructionPath(kwargs) = "duplicate"
          /\ init_bundle' = DuplicateBundle(kwvals.bundle, baseline_params)
          /\ calls' = calls
          /\ pc' = "dir"
          /\ error' = error
       \/ /\ ConstructionPath(kwargs) = "sampler"
          /\ LET method == SamplerMethod(kwargs, kwvals) IN
               /\ calls' = Append(calls, Call("draw_simulation_parameters",
                               [n_simulations |-> kwvals.replicates, method |-> method, seed |-> seed]))
               /\ \/ /\ init_bundle' = GeneratedBundle(
                            DrawSimulationParameters(kwvals.replicates, method, seed),
                            baseline_params)
                     /\ pc' = "dir"
                     /\ error' = error
                  \/ init_bundle' = init_bundle /\ Raise(ErrCollaborator)
       \/ /\ ConstructionPath(kwargs) = "missing_replicates"
          /\ calls' = calls
          /\ init_bundle' = init_bundle
          /\ Raise(ErrKeyReplicates)
       \/ /\ ConstructionPath(kwargs) = "default"
          /\ init_bundle' = GeneratedBundle(DefaultInputs(seed), baseline_params)
          /\ calls' = calls
          /\ pc' = "dir"
          /\ error' = error
    /\ UNCHANGED <<args, seed, baseline_params, azure, dir, k>>

(* Lines 102-111: the directory, and the deletion of what a previous call left *)

PrepareDirectory ==
    /\ At("dir")
    /\ dir' = Directory(kwargs, kwvals)
    /\ k' = 1
    /\ \/ /\ DeletesPrior(write, kwargs)
          /\ calls' = Append(calls, Call("delete_experiment_items",
                          [dir |-> dir', experiment |-> experiment_mode]))
          /\ \/ /\ pc' = IF Len(PreWriteTargets(write)) > 0 THEN "prewrite" ELSE "run"
                /\ error' = error
             \/ Raise(ErrCollaborator)
       \/ /\ ~DeletesPrior(write, kwargs)
          /\ calls' = calls
          /\ pc' = IF Len(PreWriteTargets(write)) > 0 THEN "prewrite" ELSE "run"
          /\ error' = error
    /\ UNCHANGED <<args, seed, baseline_params, azure, init_bundle>>

(* Lines 112-121: one iteration of the loop that hands the inputs to the writer *)

WriteInputs ==
    /\ At("prewrite")
    /\ calls' = Append(calls, Call("gcm_experiments_writer",
                    [experiments_dir |-> dir, super_experiment_name |-> experiment_mode,
                     sub_experiment_name |-> PreWriteTargets(write)[k], simulations |-> init_bundle.inputs,
                     azure_batch |-> azure.azure_batch, azure_client |-> azure.client,
                     blob_container_name |-> azure.blob_container_name]))
    /\ \/ /\ pc' = IF k = Len(PreWriteTargets(write)) THEN "run" ELSE "prewrite"
          /\ k' = IF k = Len(PreWriteTargets(write)) THEN 1 ELSE k + 1
          /\ error' = error
       \/ /\ k' = k
          /\ Raise(ErrCollaborator)
    /\ UNCHANGED <<args, seed, baseline_params, azure, init_bundle, dir>>

(* Lines 123-130: the runner *)

\* the orders in which a dict of n entries may have been filled
Orders(n) == { f \in [1..n -> 1..n] : \A i, j \in 1..n : f[i] = f[j] => i = j }

\* what the runner may leave in results: nothing, or one dataset per input row
RunnerResults(b) ==
    {NoneMap} \cup
    { SomeMap([i \in 1..Len(b.inputs) |-> [id |-> b.inputs[f[i]].simulation, tabular |-> TRUE]]) :
        f \in Orders(Len(b.inputs)) }

\* mutant: remote execution is refused only when the client was initialized
RunBranchWhenClientReady(kw, az) ==
    IF "runner" \notin kw THEN "return"
    ELSE IF az.azure_batch /\ az.client # "" THEN "unsupported"
    ELSE "run"

\* lines 124-126: what the execution stage does
RunBranch(kw, az) ==
    IF "runner" \notin kw THEN "return"
    ELSE IF az.azure_batch THEN "unsupported"
    ELSE "run"

Run ==
    /\ At("run")
    /\ LET branch == RunBranch(kwargs, azure) IN
         \/ /\ branch = "return"
            /\ pc' = "return"
            /\ UNCHANGED <<calls, init_bundle, error>>
         \/ /\ branch = "unsupported"
            /\ Raise(ErrAzure)
            /\ UNCHANGED <<calls, init_bundle>>
         \/ /\ branch = "run"
            /\ calls' = Append(calls, Call("runner", [input_bundle |-> init_bundle]))
            /\ \/ \E r \in RunnerResults(init_bundle) :
                    /\ init_bundle' = [init_bundle EXCEPT !.results = r, !.status = "executed"]
                    /\ pc' = "summarize"
                    /\ error' = error
               \/ init_bundle' = init_bundle /\ Raise(ErrCollaborator)
    /\ UNCHANGED <<args, seed, baseline_params, azure, dir, k>>

(* Lines 132-135: the summarizer *)

\* what calculate_summary_metrics may leave in summary_metrics: one value per
\* result, each a DataFrame or not (an empty mapping when the runner left no
\* results and the summarizer did not raise)
SummaryOutcomes(b) ==
    { SomeMap([i \in 1..Len(b.results.items) |-> [id |-> b.results.items[i].id, tabular |-> t[i]]]) :
        t \in [1..Len(b.results.items) -> BOOLEAN] }

\* where the loop over write starts after the summarizer
AfterSummary(w) == IF Len(w) > 0 THEN "postwrite" ELSE "return"

Summarize ==
    /\ At("summarize")
    /\ \/ /\ Has("summarizer")
          /\ calls' = Append(calls, Call("summarizer", <<>>))
          /\ \/ \E m \in SummaryOutcomes(init_bundle) :
                  /\ init_bundle' = [init_bundle EXCEPT !.summary_metrics = m]
                  /\ pc' = AfterSummary(write)
                  /\ error' = error
             \/ init_bundle' = init_bundle /\ Raise(ErrCollaborator)
       \/ /\ ~Has("summarizer")
          /\ pc' = AfterSummary(write)
          /\ UNCHANGED <<calls, init_bundle, error>>
    /\ UNCHANGED <<args, seed, baseline_params, azure, dir, k>>

(* Lines 137-157: one iteration of the loop that writes results and summaries *)

\* the entries of m before its first one that is not a DataFrame
RECURSIVE TabularPrefix(_)
TabularPrefix(items) ==
    IF items = <<>> \/ ~items[1].tabular THEN <<>>
    ELSE <<items[1]>> \o TabularPrefix(Tail(items))

\* the entries of the bundle whose file this iteration writes, in order
ItemsToWrite(sub_dir, b) ==
    IF sub_dir = "simulations" THEN b.results.items
    ELSE IF sub_dir = "summaries" THEN TabularPrefix(b.summary_metrics.items)
    ELSE <<>>

\* mutant: a category that is neither "simulations" nor "summaries" is skipped
WriteErrorSkipsOtherCategory(sub_dir, b) ==
    IF sub_dir = "simulations"
    THEN IF ~b.results.present THEN ErrNoResults ELSE ""
    ELSE IF sub_dir = "summaries"
    THEN IF ~b.summary_metrics.present THEN ErrNoSummary
         ELSE IF \E i \in 1..Len(b.summary_metrics.items) : ~b.summary_metrics.items[i].tabular
              THEN ErrNotFrame ELSE ""
    ELSE ""

\* mutant: absent summary metrics are skipped, not reported
WriteErrorSkipsAbsentSummary(sub_dir, b) ==
    IF sub_dir = "simulations"
    THEN IF ~b.results.present THEN ErrNoResults ELSE ""
    ELSE IF sub_dir = "summaries"
    THEN IF \E i \in 1..Len(b.summary_metrics.items) : ~b.summary_metrics.items[i].tabular
         THEN ErrNotFrame ELSE ""
    ELSE ErrInvalidWrite

\* the exception this iteration raises once those files are written, "" if none
WriteError(sub_dir, b) ==
    IF sub_dir = "simulations"
    THEN IF ~b.results.present THEN ErrNoResults ELSE ""
    ELSE IF sub_dir = "summaries"
    THEN IF ~b.summary_metrics.present THEN ErrNoSummary
         ELSE IF \E i \in 1..Len(b.summary_metrics.items) : ~b.summary_metrics.items[i].tabular
              THEN ErrNotFrame ELSE ""
    ELSE ErrInvalidWrite

\* mutant: summaries are written under the results' file name
FileNameAlwaysData(sub_dir) == "data.csv"

\* lines 144, 151
FileName(sub_dir) == IF sub_dir = "simulations" THEN "data.csv" ELSE "report.csv"

\* os.path.join(dir, experiment_mode, sub_dir, f"simulation_{sim_number}", <file>)
Path(d, mode, sub_dir, sim_number) ==
    [dir |-> d, experiment |-> mode, category |-> sub_dir,
     simulation |-> sim_number, file |-> FileName(sub_dir)]

\* the write_csv calls of n entries, the last of them raising when `fails`
CsvCalls(items, n, sub_dir, fails) ==
    [i \in 1..n |-> Call("write_csv",
        [path |-> Path(dir, experiment_mode, sub_dir, items[i].id),
         written |-> ~(fails /\ i = n)])]

WriteOutputs ==
    /\ At("postwrite")
    /\ LET sub_dir == write[k]
           items == ItemsToWrite(sub_dir, init_bundle)
           e == WriteError(sub_dir, init_bundle)
       IN  \/ /\ calls' = calls \o CsvCalls(items, Len(items), sub_dir, FALSE)
              /\ IF e # "" THEN Raise(e) /\ k' = k
                 ELSE /\ pc' = IF k = Len(write) THEN "return" ELSE "postwrite"
                      /\ k' = k + 1
                      /\ error' = error
           \/ \E n \in 1..Len(items) :
                 /\ calls' = calls \o CsvCalls(items, n, sub_dir, TRUE)
                 /\ k' = k
                 /\ Raise(ErrCollaborator)
    /\ UNCHANGED <<args, seed, baseline_params, azure, init_bundle, dir>>

(* Line 161: return init_bundle *)

Return ==
    /\ At("return")
    /\ pc' = "done"
    /\ UNCHANGED <<args, seed, baseline_params, azure, init_bundle, dir, k, calls, error>>

Next ==
    \/ ResolveSeed
    \/ LoadBaselineParams
    \/ SetUpAzure
    \/ ConstructBundle
    \/ PrepareDirectory
    \/ WriteInputs
    \/ Run
    \/ Summarize
    \/ WriteOutputs
    \/ Return

Spec == Init /\ [][Next]_vars

-----------------------------------------------------------------------------
(* What the claims speak of *)

Terminated == pc = "done" \/ error # ""

Invoked(fn) == \E i \in 1..Len(calls) : calls[i].fn = fn

Requests(category) == \E i \in 1..Len(write) : write[i] = category

ResultCategories == {"simulations", "summaries"}

\* the seed key is supplied with a value other than None
ExplicitSeed == Has("project_seed") /\ kwvals.project_seed # NoneInt

\* the seed resolver has run and has not raised
SeedResolved == pc # "seed"

\* init_bundle is what the bundle constructor made: the constructor has run and
\* the runner has not replaced the bundle
HoldsConstructed ==
    \/ pc \in {"dir", "prewrite", "run"}
    \/ pc \in {"return", "done"} /\ ~Has("runner")

\* every seed handed to the sampler so far is s
SamplerSeedIs(s) ==
    \A i \in 1..Len(calls) :
        calls[i].fn = "draw_simulation_parameters" => calls[i].arg.seed = s

\* the constructed bundle holds the default single input row with seed s
DefaultRowIs(s) ==
    (HoldsConstructed /\ ~Has("bundle") /\ ~Has("random_sampler"))
        => init_bundle.inputs = <<[simulation |-> 0, randomSeed |-> s]>>

-----------------------------------------------------------------------------
(* C1 *)

\* C1: when the call fails because results are missing, summary metrics are
\* missing or a per-replicate summary is not a DataFrame, no data.csv or
\* report.csv has been written by that call.
C1_FailureBeforeAnyArtifact ==
    error \in {ErrNoResults, ErrNoSummary, ErrNotFrame} => ~Invoked("write_csv")

(* C2 *)

\* C2: a call that requests a write category other than the recognized ones does
\* not return normally, whatever else is supplied (it fails with 'Invalid write
\* option').
C2_UnrecognizedCategoryRejected ==
    (\E i \in 1..Len(write) : write[i] \notin ResultCategories) => pc # "done"

(* C3 *)

\* C3: a call whose write categories include "simulations" and that supplies no
\* runner does not return a bundle normally (it fails with 'No simulation
\* results to write').
C3_SimulationsWithoutRunnerFails ==
    (Requests("simulations") /\ ~Has("runner")) => pc # "done"

(* C4 *)

\* C4 as written: in test mode, with the seed key absent or supplied as None,
\* the resolved seed is 0.
C4_TestModeSeedZero ==
    (experiment_mode = "test" /\ SeedResolved /\ ~ExplicitSeed) => seed = 0

\* C4, amended: in test mode with the seed key absent the resolved seed is 0, and
\* 0 is the seed passed to the sampler and the randomSeed of the default input
\* row; with the seed key supplied as None the seed is a draw from the range of
\* random.randint.
C4_TestModeAbsentSeedZero ==
    /\ (experiment_mode = "test" /\ ~Has("project_seed")) =>
          /\ error # ErrSeed
          /\ SeedResolved => seed = 0
          /\ SamplerSeedIs(0)
          /\ DefaultRowIs(0)
    /\ (Has("project_seed") /\ ~ExplicitSeed /\ SeedResolved) => seed \in 0..LargestDraw

C4_Witness ==
    /\ experiment_mode = "test"
    /\ ~Has("project_seed")
    /\ ~Has("bundle")
    /\ ~Has("random_sampler")
    /\ pc = "done"
    /\ init_bundle.inputs = <<[simulation |-> 0, randomSeed |-> 0]>>

(* C5 *)

\* C5 as written: a call that supplies the remote-storage flag and a runner
\* always ends in the unsupported-path error, and never invokes the runner or
\* the summarizer.
C5_RemoteWithRunnerUnsupported ==
    (Has("downloader") /\ Has("runner") /\ Terminated) =>
        /\ error = ErrAzure
        /\ ~Invoked("runner")
        /\ ~Invoked("summarizer")

\* C5, amended: a call that supplies the remote-storage flag and a runner never
\* invokes the runner or the summarizer and never gets past the execution
\* stage; when it reaches that stage it fails there, with the unsupported-path
\* error, whatever the initializer returned.
C5_RemoteWithRunnerNeverRuns ==
    (Has("downloader") /\ Has("runner")) =>
        /\ ~Invoked("runner")
        /\ ~Invoked("summarizer")
        /\ pc \notin {"summarize", "postwrite", "return", "done"}
        /\ (pc = "run" /\ error # "") => error = ErrAzure

C5_Witness ==
    /\ Has("downloader")
    /\ Has("runner")
    /\ Has("summarizer")
    /\ azure.azure_batch
    /\ azure.client = ""
    /\ pc = "run"
    /\ error = ErrAzure

(* C6 *)

\* C6 as written: a call that supplies a runner but no summarizer and whose write
\* categories include "summaries" ends in 'No summary metrics to write'.
C6_SummariesWithoutSummarizerStateError ==
    (Has("runner") /\ ~Has("summarizer") /\ Requests("summaries") /\ Terminated)
        => error = ErrNoSummary

\* C6, amended: such a call never returns a bundle; summary_metrics stays absent,
\* the loop over write never gets past "summaries", and when it reaches
\* "summaries" it fails there with 'No summary metrics to write'.
C6_SummariesWithoutSummarizerNeverReturns ==
    (Has("runner") /\ ~Has("summarizer") /\ Requests("summaries")) =>
        /\ pc \notin {"return", "done"}
        /\ ~init_bundle.summary_metrics.present
        /\ pc = "postwrite" =>
              /\ \A j \in 1..(k - 1) : write[j] # "summaries"
              /\ (write[k] = "summaries" /\ error # "") => error = ErrNoSummary

C6_Witness ==
    /\ Has("runner")
    /\ ~Has("summarizer")
    /\ pc = "postwrite"
    /\ write[k] = "summaries"
    /\ init_bundle.results.present
    /\ error = ErrNoSummary

(* C7 *)

\* C7: with the seed key absent and an experiment mode other than "test", the
\* call fails with 'Random seed not specified' in the seed resolver, before any
\* collaborator is invoked.
C7_MissingSeedFailsFirst ==
    (~Has("project_seed") /\ experiment_mode # "test") =>
        /\ pc = "seed"
        /\ calls = <<>>
        /\ error \in {"", ErrSeed}
        /\ init_bundle = NoBundle

C7_Witness ==
    /\ ~Has("project_seed")
    /\ experiment_mode # "test"
    /\ Has("initializer")
    /\ Has("runner")
    /\ Len(write) > 0
    /\ error = ErrSeed

(* C8 *)

\* C8: with an explicit seed other than None, in every experiment mode, the
\* resolved seed is the supplied value: it is the seed handed to the sampler
\* and the randomSeed of the default single input row.
C8_ExplicitSeedVerbatim ==
    ExplicitSeed =>
        /\ error # ErrSeed
        /\ SeedResolved => seed = kwvals.project_seed
        /\ SamplerSeedIs(kwvals.project_seed)
        /\ DefaultRowIs(kwvals.project_seed)

C8_Witness ==
    /\ experiment_mode = "test"
    /\ kwvals.project_seed = 1
    /\ Has("project_seed")
    /\ Has("random_sampler")
    /\ Invoked("draw_simulation_parameters")
    /\ pc = "done"

(* C9 *)

\* C9: when an existing bundle is supplied, the bundle the constructor makes (the
\* one returned when no runner is supplied) has the source bundle's inputs,
\* step_number and baseline_params and the status "duplicated".
C9_DuplicateEqualsSource ==
    (Has("bundle") /\ HoldsConstructed) =>
        /\ init_bundle.inputs = kwvals.bundle.inputs
        /\ init_bundle.step_number = kwvals.bundle.step_number
        /\ init_bundle.baseline_params = kwvals.bundle.baseline_params
        /\ init_bundle.status = "duplicated"

C9_Witness ==
    /\ Has("bundle")
    /\ Has("initializer")
    /\ Has("random_sampler")
    /\ ~Has("runner")
    /\ kwvals.bundle.step_number = 3
    /\ pc = "done"

(* C10 *)

\* C10: with no existing bundle and no sampler, the constructed bundle has
\* step_number 0, exactly one input row with simulation 0 and randomSeed the
\* resolved seed, and the resolved baseline parameters.
C10_DefaultGeneration ==
    (~Has("bundle") /\ ~Has("random_sampler") /\ HoldsConstructed) =>
        /\ init_bundle.step_number = 0
        /\ Len(init_bundle.inputs) = 1
        /\ init_bundle.inputs[1].simulation = 0
        /\ init_bundle.inputs[1].randomSeed = seed
        /\ seed # NoneInt
        /\ init_bundle.baseline_params = baseline_params
        /\ baseline_params =
              IF Has("initializer") THEN "params_of_initializer" ELSE "params_of_config"

C10_Witness ==
    /\ ~Has("bundle")
    /\ ~Has("random_sampler")
    /\ Has("initializer")
    /\ seed = LargestDraw
    /\ pc = "done"

\* ---------------------------------------------------------------------
\* Helpers of the claims about the whole call

\* how many times a collaborator has been invoked in this call
Count(fn) == Cardinality({ i \in 1..Len(calls) : calls[i].fn = fn })

\* the positions in the log of the invocations of fn
Positions(fn) == { i \in 1..Len(calls) : calls[i].fn = fn }

\* the replicate files written so far
WrittenFiles ==
    { calls[i].arg.path :
        i \in { j \in 1..Len(calls) : calls[j].fn = "write_csv" /\ calls[j].arg.written } }

\* the replicate ids of an optional map
Ids(m) == { m.items[i].id : i \in 1..Len(m.items) }

\* <dir>/<experiment_mode>/<category>/simulation_<id>/<file>
ExpectedFile(category, id, file) ==
    [dir |-> IF Has("wd") THEN kwvals.wd ELSE ".", experiment |-> experiment_mode,
     category |-> category, simulation |-> id, file |-> file]

\* a runner and a summarizer, no downloader, write = ("simulations", "summaries")
EndToEndCall ==
    /\ Has("runner") /\ Has("summarizer") /\ ~Has("downloader")
    /\ write = <<"simulations", "summaries">>

PersistenceReached ==
    /\ pc \notin {"seed", "params", "azure", "bundle"}
    /\ ~At("dir")

\* the call asks for the deletion: a write category and no preserve flag
AsksDeletion == Len(write) > 0 /\ ~Has("preserve")

\* every deletion of the call comes before every write of the call
DeletionBeforeWrites ==
    \A j \in 1..Len(calls) :
        calls[j].fn = "delete_experiment_items" =>
            \A i \in 1..(j - 1) : calls[i].fn \notin {"gcm_experiments_writer", "write_csv"}

\* C12 as stated: in every call the prior artifacts are deleted if and only if
\* a write category is requested and the preserve flag is not set, once and
\* before the first write
C12_DeletesIffRequested ==
    Terminated =>
        /\ Invoked("delete_experiment_items") <=> AsksDeletion
        /\ Count("delete_experiment_items") <= 1
        /\ DeletionBeforeWrites

\* C12: prior artifacts are deleted only if a write category is requested and
\* the preserve flag is not set, and they are deleted in every such call that
\* reaches persistence; the deletion happens exactly once and before the first
\* write of the call; a call with no write category, or with the preserve
\* flag, never deletes
C12_CleanSlate ==
    [](/\ Count("delete_experiment_items") <= 1
       /\ Invoked("delete_experiment_items") => AsksDeletion
       /\ (PersistenceReached /\ AsksDeletion) => Count("delete_experiment_items") = 1
       /\ DeletionBeforeWrites)

\* a call has deleted the prior artifacts, written before and after execution,
\* and returned
C12_Witness ==
    /\ pc = "done"
    /\ Invoked("delete_experiment_items")
    /\ Invoked("gcm_experiments_writer")
    /\ Invoked("write_csv")

\* how far the execution of the call has got: 0 unexecuted, 1 executed (the
\* runner returned), 2 summarized (the summarizer returned), 3 persisted (a
\* results or summary file written)
StageRank ==
    IF Invoked("write_csv") THEN 3
    ELSE IF Invoked("summarizer") /\ pc \in {"postwrite", "return", "done"} THEN 2
    ELSE IF Invoked("runner") /\ pc \in {"summarize", "postwrite", "return", "done"} THEN 1
    ELSE 0

\* the order of the runner, the summarizer and the files in the log of a call
ExecutionOrder ==
    /\ Count("runner") <= 1
    /\ Count("summarizer") <= 1
    /\ \A j \in Positions("summarizer") : \E i \in Positions("runner") : i < j
    /\ \A j \in Positions("write_csv") :
          /\ \E i \in Positions("runner") : i < j
          /\ Has("summarizer") => \E i \in Positions("summarizer") : i < j
    /\ error # "" => pc # "done"

\* C13: the execution stage only moves forward: the runner is invoked at most
\* once, the summarizer at most once and only after the runner, every file
\* written after execution comes after the runner (and the summarizer, when
\* supplied), and after a failure no collaborator is invoked and no bundle is
\* returned
C13_ExecutionMovesForward ==
    /\ []ExecutionOrder
    /\ [][ /\ StageRank' >= StageRank
           /\ error # "" => calls' = calls /\ pc' = pc /\ error' = error ]_vars

\* a call has run the runner, then the summarizer, then written files, and
\* returned
C13_Witness ==
    /\ pc = "done"
    /\ Invoked("runner") /\ Invoked("summarizer") /\ Invoked("write_csv")

\* C14: in every returned bundle results is populated only if the runner was
\* invoked in this call, and summary_metrics only if a summarizer was supplied
\* and invoked; a call without a runner returns a bundle with neither, without
\* invoking the summarizer or writing a results or summary file, also when a
\* summarizer is supplied and the source bundle carried results and summaries
C14_OutputsOnlyFromThisCall ==
    pc = "done" =>
        /\ init_bundle.results.present => Invoked("runner")
        /\ init_bundle.summary_metrics.present =>
              Has("summarizer") /\ Invoked("summarizer")
        /\ ~Has("runner") =>
              /\ ~init_bundle.results.present
              /\ ~init_bundle.summary_metrics.present
              /\ ~Invoked("summarizer")
              /\ ~Invoked("write_csv")

\* a call without a runner, with a summarizer and a source bundle that carries
\* results and summary metrics, has returned
C14_Witness ==
    /\ pc = "done"
    /\ ~Has("runner") /\ Has("summarizer") /\ Has("bundle")
    /\ kwvals.bundle.results.present
    /\ kwvals.bundle.summary_metrics.present

\* the categories handed to gcm_experiments_writer so far, in the order of the
\* invocations
WriterCategories ==
    LET writes == SelectSeq(calls, LAMBDA c : c.fn = "gcm_experiments_writer")
    IN  [i \in 1..Len(writes) |-> writes[i].arg.sub_experiment_name]

\* the loop of writes before execution is over
PreWriteDone == pc \in {"run", "summarize", "postwrite", "return", "done"}

\* C15 as stated: gcm_experiments_writer is never invoked for "simulations" or
\* "summaries"
C15_WriterOnlyForNonResult ==
    \A i \in 1..Len(WriterCategories) : WriterCategories[i] \notin ResultCategories

\* C15: before execution gcm_experiments_writer is invoked once for every
\* requested category, "simulations" and "summaries" included, in the order
\* of write and before the runner and every results or summary file
C15_WriterForEveryCategory ==
    /\ Len(WriterCategories) <= Len(write)
    /\ \A i \in 1..Len(WriterCategories) : WriterCategories[i] = write[i]
    /\ PreWriteDone => WriterCategories = write
    /\ \A i \in Positions("gcm_experiments_writer") :
          \A j \in Positions("runner") \cup Positions("write_csv") : i < j

\* a call with write = ("simulations", "summaries") has invoked the writer for
\* both and returned
C15_Witness ==
    /\ pc = "done"
    /\ write = <<"simulations", "summaries">>
    /\ WriterCategories = <<"simulations", "summaries">>
    /\ Invoked("runner")

\* lines 37-46 have run, to their end or to an exception of the collaborator
ParamsRan == pc # "seed" /\ ~At("params")

\* the source the priority of the claim chooses
ChosenSource ==
    IF Has("initializer") THEN "initializer"
    ELSE IF Has("bundle") THEN "bundle"
    ELSE "config"

\* the baseline parameters the chosen source gives
ChosenParams ==
    IF ChosenSource = "initializer" THEN "params_of_initializer"
    ELSE IF ChosenSource = "bundle" THEN kwvals.bundle.baseline_params
    ELSE "params_of_config"

\* the initializer is invoked once, without arguments, exactly when it is
\* supplied, and the configuration loader once exactly when neither an
\* initializer nor a bundle is supplied
SourceInvokedOnce ==
    /\ Count("initializer") = IF Has("initializer") THEN 1 ELSE 0
    /\ \A i \in Positions("initializer") : calls[i].arg = <<>>
    /\ Count("load_baseline_params") =
          IF ~Has("initializer") /\ ~Has("bundle") THEN 1 ELSE 0

\* C16 as stated: one source by priority, and the baseline_params of the
\* constructed bundle are the ones of that source
C16_BundleParamsFromChosenSource ==
    /\ ParamsRan => SourceInvokedOnce
    /\ HoldsConstructed => init_bundle.baseline_params = ChosenParams

\* C16: once the seed is resolved the baseline parameters are obtained from
\* one source by priority (initializer, invoked once without arguments; else
\* the existing bundle, without the loader; else the loader, invoked once);
\* the constructed bundle carries the parameters of that source unless an
\* existing bundle is supplied, and then it carries the existing bundle's,
\* also when an initializer was supplied and invoked
C16_BaselineSourceByPriority ==
    /\ ~ParamsRan => Count("initializer") = 0 /\ Count("load_baseline_params") = 0
    /\ ParamsRan => SourceInvokedOnce
    /\ pc \notin {"seed", "params"} => baseline_params = ChosenParams
    /\ HoldsConstructed =>
          init_bundle.baseline_params =
              IF Has("bundle") THEN kwvals.bundle.baseline_params ELSE ChosenParams

\* a call with an initializer and an existing bundle has returned
C16_Witness ==
    /\ pc = "done"
    /\ Has("initializer") /\ Has("bundle")
    /\ Invoked("initializer")

\* C17: when an existing bundle is supplied the sampler is never invoked, also
\* when a sampler, a sampling method and a replicate count are supplied, and
\* no step of the call changes the supplied bundle's inputs, step_number,
\* baseline_params, status, results or summary_metrics
C17_SuppliedBundleUntouched ==
    /\ [](Has("bundle") => ~Invoked("draw_simulation_parameters"))
    /\ [][ Has("bundle") =>
             /\ kwvals'.bundle.inputs = kwvals.bundle.inputs
             /\ kwvals'.bundle.step_number = kwvals.bundle.step_number
             /\ kwvals'.bundle.baseline_params = kwvals.bundle.baseline_params
             /\ kwvals'.bundle.status = kwvals.bundle.status
             /\ kwvals'.bundle.results = kwvals.bundle.results
             /\ kwvals'.bundle.summary_metrics = kwvals.bundle.summary_metrics ]_vars

\* a call with an existing bundle, a sampler, a sampling method and a
\* replicate count has constructed its bundle and returned
C17_Witness ==
    /\ pc = "done"
    /\ Has("bundle") /\ Has("random_sampler")
    /\ Has("sampler_method") /\ Has("replicates")
    /\ init_bundle.status = "duplicated"

\* lines 49-67 have run, to their end or to an exception
GateRan == pc \notin {"seed", "params"} /\ ~At("azure")

\* the flag is azure_batch = ("downloader" in kwargs) wherever it is used: in
\* the local context, in every call of the writer, and at the branch before
\* the runner
RemoteFlagAsRequested ==
    /\ pc \notin {"seed", "params", "azure"} => azure.azure_batch = Has("downloader")
    /\ \A i \in Positions("gcm_experiments_writer") :
          calls[i].arg.azure_batch = Has("downloader")
    /\ Invoked("runner") => ~Has("downloader")
    /\ error = ErrAzure => Has("downloader") /\ Has("runner")

\* without a downloader the client, the container and the job prefix are None
NullContextWhenNotRequested ==
    ~Has("downloader") =>
        /\ azure.client = "" /\ azure.blob_container_name = "" /\ azure.job_prefix = ""
        /\ \A i \in Positions("gcm_experiments_writer") :
              calls[i].arg.azure_client = "" /\ calls[i].arg.blob_container_name = ""

\* C18 as stated: the flag is true exactly when the downloader is requested,
\* the initializer is invoked exactly once when it is requested and never
\* otherwise, and without a request the context is null
C18_InitializerOnceWhenRequested ==
    /\ RemoteFlagAsRequested
    /\ GateRan =>
          Count("initialize_azure_client") = IF Has("downloader") THEN 1 ELSE 0
    /\ NullContextWhenNotRequested

\* C18: the flag handed to every write and tested before the runner is true
\* exactly when the downloader is requested, whatever the initializer
\* returned; the initializer is invoked at most once and only when the
\* downloader is requested, exactly once when create_pool is supplied with it
\* and never when create_pool is missing; without a request the client, the
\* container and the job prefix are null
C18_RemoteFlag ==
    /\ RemoteFlagAsRequested
    /\ Count("initialize_azure_client") <= 1
    /\ Invoked("initialize_azure_client") => Has("downloader") /\ Has("create_pool")
    /\ (GateRan /\ Has("downloader") /\ Has("create_pool")) =>
          Count("initialize_azure_client") = 1
    /\ NullContextWhenNotRequested

\* a call with a downloader whose initializer returned a falsy client has
\* handed the flag to the writer and returned
C18_Witness ==
    /\ pc = "done"
    /\ Has("downloader") /\ azure.client = ""
    /\ \E i \in Positions("gcm_experiments_writer") : calls[i].arg.azure_batch

\* a runner is supplied and no downloader
RunsLocally == Has("runner") /\ ~Has("downloader")

\* a category other than "simulations" and "summaries" is requested
OtherCategoryRequested == \E i \in 1..Len(write) : write[i] \notin ResultCategories

\* C19 as stated: a call with a runner, no downloader and a category other
\* than "simulations" and "summaries" ends in "Invalid write option" once its
\* loop after execution is what fails
C19_OtherCategoryEndsInvalidWrite ==
    (RunsLocally /\ OtherCategoryRequested /\ pc = "postwrite"
       /\ error # "" /\ error # ErrCollaborator) =>
        error = ErrInvalidWrite

\* C19: a call with a runner and no downloader returns only if every requested
\* category is "simulations" or "summaries"; with any other category it never
\* returns; the loop after execution raises "Invalid write option" when it
\* reaches such a category, and when a call ends in that error the writer has
\* been invoked for every requested category and the runner has run
C19_RunnerAcceptsOnlyResultCategories ==
    /\ [](pc = "done" /\ RunsLocally =>
             \A i \in 1..Len(write) : write[i] \in ResultCategories)
    /\ [](error = ErrInvalidWrite =>
             /\ RunsLocally
             /\ pc = "postwrite" /\ write[k] \notin ResultCategories
             /\ WriterCategories = write
             /\ Count("runner") = 1)
    /\ [][ (At("postwrite") /\ write[k] \notin ResultCategories) =>
             error' = ErrInvalidWrite ]_vars

\* a call with a runner and the category "parameters" has written the category
\* before execution, run the runner and ended in "Invalid write option"
C19_Witness ==
    /\ error = ErrInvalidWrite
    /\ Requests("parameters")
    /\ Invoked("runner")
    /\ \E i \in 1..Len(WriterCategories) : WriterCategories[i] = "parameters"

\* the call has failed in lines 124-157: at the branch before the runner, in
\* the runner, in the summarizer or in the loop after execution
ExecutionStageFailed == error # "" /\ pc \in {"run", "summarize", "postwrite"}

\* C20: when a call with a write category and no preserve flag fails with
\* "Azure Batch not yet implemented" or with any later error of the execution
\* stage, the deletion of the prior artifacts and the write before execution
\* of every requested category have already happened in the call, and nothing
\* is deleted after them
C20_FailureAfterSideEffects ==
    []((AsksDeletion /\ ExecutionStageFailed) =>
          /\ Count("delete_experiment_items") = 1
          /\ WriterCategories = write
          /\ DeletionBeforeWrites)

\* a call with two write categories, a downloader and a runner has deleted,
\* written both categories and failed with "Azure Batch not yet implemented"
C20_Witness ==
    /\ error = ErrAzure
    /\ AsksDeletion /\ Len(write) = 2
    /\ Invoked("delete_experiment_items")
    /\ Count("gcm_experiments_writer") = 2

====
